---- MODULE Spec2Model ----
(***************************************************************************)
(* Clouds Detangler: the duplicate-detection pipeline of                   *)
(* clouds_detangler.py (DuplicateFinder.find_duplicates and                *)
(* ManifestGenerator.generate_manifest / _generate_summary).               *)
(*                                                                         *)
(* A run starts from a list of CloudFile records, applies find_duplicates  *)
(* to it and then generate_manifest to the records and a list of groups.   *)
(* Spec runs over records as scan_directory builds them; SpecMarked also   *)
(* over records that carry the failure marker as their hash.               *)
(***************************************************************************)
EXTENDS Integers, Sequences, FiniteSets, TLC

\* ------------------------------------------------------------------------
\* Bounds of the model
\* ------------------------------------------------------------------------
\* longest list of records given to find_duplicates
MaxFiles == 4

\* ------------------------------------------------------------------------
\* Program constants and input domains
\* ------------------------------------------------------------------------
\* 1024**3, the divisor of the *_gb summary fields
GiB == 1024 * 1024 * 1024

\* digests of file contents (the tests use these two)
Digests == {"abc123", "def456"}

\* the failure marker returned by compute_file_hash
FailureMarker == ""

\* values of the hash field of a record
Hashes == Digests \cup {FailureMarker}

ProviderTags == {"google_drive", "onedrive"}

\* sizes of files: an empty file, and the smallest number of bytes that the
\* summary displays as 0.01 GB
Sizes == {0, (GiB \div 200) + 1}

MTimes == {"2026-01-01T00:00:00"}

Clock == {"2026-11-05T10:00:00", "2026-11-05T11:00:00"}

\* @dataclass CloudFile; the i-th record of an input list has path i
CloudFile(path, size, hash, cloud_provider, last_modified) ==
    [path |-> path, size |-> size, hash |-> hash,
     cloud_provider |-> cloud_provider, last_modified |-> last_modified]

\* the fields of a record whose hash is drawn from H
FileFields(H) == [size : Sizes, hash : H, cloud_provider : ProviderTags,
                  last_modified : MTimes]

\* the list of records made of the fields fl[1], ..., fl[n], in this order
FileList(fl) ==
    [i \in 1..Len(fl) |-> CloudFile(i, fl[i].size, fl[i].hash,
                                    fl[i].cloud_provider, fl[i].last_modified)]

\* ------------------------------------------------------------------------
\* DuplicateFinder.find_duplicates
\* ------------------------------------------------------------------------
\* faulty variant: a key is never found in the dict
HasKeyNever(hash_map, h) == FALSE

\* hash_map is a dict, which keeps its keys in insertion order: a sequence
\* of entries [key, value]
HasKey(hash_map, h) == \E i \in 1..Len(hash_map) : hash_map[i].key = h

\* faulty variant: the record is appended only when its hash is new
HashMapAddNewOnly(hash_map, file) ==
    IF ~HasKey(hash_map, file.hash)
      THEN Append(hash_map, [key |-> file.hash, value |-> <<file>>])
      ELSE hash_map

\* body of the loop "for file in files"
HashMapAdd(hash_map, file) ==
    LET m == IF ~HasKey(hash_map, file.hash)
               THEN Append(hash_map, [key |-> file.hash, value |-> <<>>])
               ELSE hash_map
    IN  [i \in 1..Len(m) |->
            IF m[i].key = file.hash
              THEN [m[i] EXCEPT !.value = Append(@, file)]
              ELSE m[i]]

\* faulty variant: the loop "for file in files" runs from the last record
RECURSIVE BuildHashMapBackwards(_, _)
BuildHashMapBackwards(files, hash_map) ==
    IF files = <<>>
      THEN hash_map
      ELSE BuildHashMapBackwards(SubSeq(files, 1, Len(files) - 1),
                                 HashMapAdd(hash_map, files[Len(files)]))

\* the loop "for file in files"
RECURSIVE BuildHashMap(_, _)
BuildHashMap(files, hash_map) ==
    IF files = <<>>
      THEN hash_map
      ELSE BuildHashMap(Tail(files), HashMapAdd(hash_map, Head(files)))

\* set(f.cloud_provider for f in file_list)
ProvidersOf(file_list) ==
    {file_list[i].cloud_provider : i \in 1..Len(file_list)}

\* faulty variant: the check of the providers is left out
IsDuplicateAnyProvider(file_list) == Len(file_list) > 1

\* len(file_list) > 1 and len(providers) > 1
IsDuplicate(file_list) ==
    /\ Len(file_list) > 1
    /\ Cardinality(ProvidersOf(file_list)) > 1

\* faulty variant: every copy is counted as waste
TotalWasteAllCopies(file_list) == file_list[1].size * Len(file_list)

\* total_waste = file_list[0].size * (len(file_list) - 1)
TotalWaste(file_list) == file_list[1].size * (Len(file_list) - 1)

\* @dataclass DuplicateGroup, as built in find_duplicates
DuplicateGroup(file_hash, file_list) ==
    [hash |-> file_hash,
     size |-> file_list[1].size,
     files |-> file_list,
     total_waste |-> TotalWaste(file_list)]

\* faulty variant: a group is put in front of the groups found so far
RECURSIVE CollectDuplicatesPrepend(_, _)
CollectDuplicatesPrepend(hash_map, duplicates) ==
    IF hash_map = <<>>
      THEN duplicates
      ELSE LET e == Head(hash_map)
           IN  CollectDuplicatesPrepend(Tail(hash_map),
                  IF IsDuplicate(e.value)
                    THEN <<DuplicateGroup(e.key, e.value)>> \o duplicates
                    ELSE duplicates)

\* the loop "for file_hash, file_list in hash_map.items()"
RECURSIVE CollectDuplicates(_, _)
CollectDuplicates(hash_map, duplicates) ==
    IF hash_map = <<>>
      THEN duplicates
      ELSE LET e == Head(hash_map)
           IN  CollectDuplicates(Tail(hash_map),
                  IF IsDuplicate(e.value)
                    THEN Append(duplicates, DuplicateGroup(e.key, e.value))
                    ELSE duplicates)

find_duplicates(files) ==
    CollectDuplicates(BuildHashMap(files, <<>>), <<>>)

\* ------------------------------------------------------------------------
\* ManifestGenerator
\* ------------------------------------------------------------------------
\* the builtin sum over a sequence of integers
RECURSIVE SumSeq(_)
SumSeq(s) == IF s = <<>> THEN 0 ELSE Head(s) + SumSeq(Tail(s))

\* faulty variant: the byte total is recovered from the rounded gigabytes
SumSizesFromGb(files) ==
    LET t == SumSeq([i \in 1..Len(files) |-> files[i].size])
        n == t * 25
        d == GiB \div 4
        h == IF 2 * (n % d) >= d THEN (n \div d) + 1 ELSE n \div d
    IN  h * (GiB \div 100)

\* total_size = sum(f.size for f in files)
SumSizes(files) == SumSeq([i \in 1..Len(files) |-> files[i].size])

\* faulty variant: the sizes of the groups are summed, not their waste
SumWasteOfSizes(duplicates) ==
    SumSeq([i \in 1..Len(duplicates) |-> duplicates[i].size])

\* total_waste = sum(d.total_waste for d in duplicates)
SumWaste(duplicates) ==
    SumSeq([i \in 1..Len(duplicates) |-> duplicates[i].total_waste])

\* round(total / (1024**3), 2), as a number of hundredths of a gigabyte.
\* total / 2^30 is exact in binary floating point and round() rounds a tie
\* to the even hundredth.  total * 100 / 2^30 = total * 25 / 2^28.
RoundGb(total) ==
    LET n == total * 25
        d == GiB \div 4
        q == n \div d
        r == n % d
    IN  IF 2 * r > d \/ (2 * r = d /\ q % 2 = 1) THEN q + 1 ELSE q

\* faulty variant: a provider is recorded once and never counted further
ProviderCountAddSeen(provider_counts, file) ==
    IF ~HasKey(provider_counts, file.cloud_provider)
      THEN Append(provider_counts, [key |-> file.cloud_provider, value |-> 1])
      ELSE provider_counts

\* body of the loop "for file in files" of _generate_summary;
\* provider_counts is a dict in insertion order
ProviderCountAdd(provider_counts, file) ==
    LET m == IF ~HasKey(provider_counts, file.cloud_provider)
               THEN Append(provider_counts,
                           [key |-> file.cloud_provider, value |-> 0])
               ELSE provider_counts
    IN  [i \in 1..Len(m) |->
            IF m[i].key = file.cloud_provider
              THEN [m[i] EXCEPT !.value = @ + 1]
              ELSE m[i]]

RECURSIVE ProviderCounts(_, _)
ProviderCounts(files, provider_counts) ==
    IF files = <<>>
      THEN provider_counts
      ELSE ProviderCounts(Tail(files),
                          ProviderCountAdd(provider_counts, Head(files)))

\* ManifestGenerator._generate_summary
generate_summary(files, duplicates) ==
    [total_size_bytes |-> SumSizes(files),
     total_size_gb |-> RoundGb(SumSizes(files)),
     total_waste_bytes |-> SumWaste(duplicates),
     total_waste_gb |-> RoundGb(SumWaste(duplicates)),
     files_per_provider |-> ProviderCounts(files, <<>>),
     duplicate_groups |-> Len(duplicates)]

\* faulty variant: the modification time is not copied
asdict_untimed(f) ==
    [path |-> f.path, size |-> f.size, hash |-> f.hash,
     cloud_provider |-> f.cloud_provider, last_modified |-> ""]

\* dataclasses.asdict of a CloudFile
asdict(f) ==
    [path |-> f.path, size |-> f.size, hash |-> f.hash,
     cloud_provider |-> f.cloud_provider, last_modified |-> f.last_modified]

\* the dict "manifest" of generate_manifest
ManifestDict(files, duplicates, now) ==
    [generated_at |-> now,
     total_files |-> Len(files),
     total_duplicates |-> Len(duplicates),
     files |-> [i \in 1..Len(files) |-> asdict(files[i])],
     duplicates |->
        [i \in 1..Len(duplicates) |->
            [hash |-> duplicates[i].hash,
             size |-> duplicates[i].size,
             total_waste |-> duplicates[i].total_waste,
             files |-> [j \in 1..Len(duplicates[i].files) |->
                           asdict(duplicates[i].files[j])]]],
     summary |-> generate_summary(files, duplicates)]

\* ------------------------------------------------------------------------
\* json.dumps / json.loads: a number is written as its decimal digits and
\* read back from them; strings, lists and objects keep their structure
\* ------------------------------------------------------------------------
RECURSIVE DumpInt(_)
DumpInt(n) == IF n < 10 THEN <<n>> ELSE Append(DumpInt(n \div 10), n % 10)

RECURSIVE ParseInt(_)
ParseInt(ds) ==
    IF Len(ds) = 1
      THEN ds[1]
      ELSE ParseInt(SubSeq(ds, 1, Len(ds) - 1)) * 10 + ds[Len(ds)]

\* repr of a float with at most two decimals: "0.0", "0.01", "0.1", "1.25"
DumpFloat(h) ==
    [int |-> DumpInt(h \div 100),
     frac |-> IF h % 10 = 0 THEN <<(h % 100) \div 10>>
                            ELSE <<(h % 100) \div 10, h % 10>>]

ParseFloat(t) ==
    ParseInt(t.int) * 100 + t.frac[1] * 10
        + (IF Len(t.frac) > 1 THEN t.frac[2] ELSE 0)

DumpFile(f) == [f EXCEPT !.size = DumpInt(@)]

ParseFile(f) == [f EXCEPT !.size = ParseInt(@)]

DumpGroup(d) ==
    [hash |-> d.hash,
     size |-> DumpInt(d.size),
     total_waste |-> DumpInt(d.total_waste),
     files |-> [j \in 1..Len(d.files) |-> DumpFile(d.files[j])]]

ParseGroup(d) ==
    [hash |-> d.hash,
     size |-> ParseInt(d.size),
     total_waste |-> ParseInt(d.total_waste),
     files |-> [j \in 1..Len(d.files) |-> ParseFile(d.files[j])]]

\* json.dumps(manifest, indent=2)
json_dumps(m) ==
    [generated_at |-> m.generated_at,
     total_files |-> DumpInt(m.total_files),
     total_duplicates |-> DumpInt(m.total_duplicates),
     files |-> [i \in 1..Len(m.files) |-> DumpFile(m.files[i])],
     duplicates |-> [i \in 1..Len(m.duplicates) |-> DumpGroup(m.duplicates[i])],
     summary |->
        [total_size_bytes |-> DumpInt(m.summary.total_size_bytes),
         total_size_gb |-> DumpFloat(m.summary.total_size_gb),
         total_waste_bytes |-> DumpInt(m.summary.total_waste_bytes),
         total_waste_gb |-> DumpFloat(m.summary.total_waste_gb),
         files_per_provider |->
            [i \in 1..Len(m.summary.files_per_provider) |->
                [key |-> m.summary.files_per_provider[i].key,
                 value |-> DumpInt(m.summary.files_per_provider[i].value)]],
         duplicate_groups |-> DumpInt(m.summary.duplicate_groups)]]

\* an object read back is a dict: the last member with a key gives its value
LoadObject(members) ==
    [k \in {members[i].key : i \in 1..Len(members)} |->
        LET last == CHOOSE i \in 1..Len(members) :
                       /\ members[i].key = k
                       /\ \A j \in (i + 1)..Len(members) : members[j].key # k
        IN  ParseInt(members[last].value)]

\* json.loads of a manifest document
json_loads(doc) ==
    [generated_at |-> doc.generated_at,
     total_files |-> ParseInt(doc.total_files),
     total_duplicates |-> ParseInt(doc.total_duplicates),
     files |-> [i \in 1..Len(doc.files) |-> ParseFile(doc.files[i])],
     duplicates |-> [i \in 1..Len(doc.duplicates) |-> ParseGroup(doc.duplicates[i])],
     summary |->
        [total_size_bytes |-> ParseInt(doc.summary.total_size_bytes),
         total_size_gb |-> ParseFloat(doc.summary.total_size_gb),
         total_waste_bytes |-> ParseInt(doc.summary.total_waste_bytes),
         total_waste_gb |-> ParseFloat(doc.summary.total_waste_gb),
         files_per_provider |-> LoadObject(doc.summary.files_per_provider),
         duplicate_groups |-> ParseInt(doc.summary.duplicate_groups)]]

\* number of records that are members of some group
MembersOfGroups(duplicates) ==
    SumSeq([i \in 1..Len(duplicates) |-> Len(duplicates[i].files)])

\* faulty variant: total_files counts the members of the duplicate groups
generate_manifest_members(files, duplicates, now) ==
    json_dumps([ManifestDict(files, duplicates, now)
                   EXCEPT !.total_files = MembersOfGroups(duplicates)])

\* ManifestGenerator.generate_manifest; now is datetime.now().isoformat()
generate_manifest(files, duplicates, now) ==
    json_dumps(ManifestDict(files, duplicates, now))

\* ------------------------------------------------------------------------
\* FileScanner.compute_file_hash
\* ------------------------------------------------------------------------
\* longest file content, in bytes, given to compute_file_hash
MaxContent == 2

\* largest chunk_size a FileScanner is built with
MaxChunk == 2

\* chunk_size of FileScanner() as main builds it
DefaultChunkSize == 8192

Bytes == {0, 1}

\* file contents of at most n bytes
ContentsUpTo(n) == UNION {[1..k -> Bytes] : k \in 0..n}

\* chunk_size is any int: negative (read to the end), zero, positive
ChunkSizes == (-1)..MaxChunk

\* the exception classes that the file operations raise, with their base
ExcBase ==
    [PermissionError |-> "OSError", FileNotFoundError |-> "OSError",
     OSError |-> "Exception", IndexError |-> "LookupError",
     LookupError |-> "Exception", Exception |-> "BaseException"]

\* the class a name in an except clause stands for (IOError is OSError)
ExcClass(name) == IF name = "IOError" THEN "OSError" ELSE name

RECURSIVE IsSubclass(_, _)
IsSubclass(c, d) ==
    \/ c = d
    \/ c \in DOMAIN ExcBase /\ IsSubclass(ExcBase[c], d)

\* an except clause naming the classes in handlers catches exception exc
Catches(handlers, exc) ==
    \E h \in handlers : IsSubclass(exc, ExcClass(h))

\* a file operation that fails: [at |-> the call, exc |-> what it raises]
NoFault == [at |-> "never", exc |-> "none"]

\* failures of open() and of f.read(): permission denied, file removed,
\* I/O error during the read
ReadFaults ==
    {[at |-> "open", exc |-> "PermissionError"],
     [at |-> "open", exc |-> "FileNotFoundError"],
     [at |-> "read", exc |-> "OSError"]}

\* f.read(n) on the bytes not yet read: all of them for n < 0, at most n
ReadChunk(rest, n) ==
    IF n < 0 \/ n >= Len(rest) THEN rest ELSE SubSeq(rest, 1, n)

\* faulty variant: one chunk is read and folded, the loop is an "if"
FoldChunksOnce(sha256, rest, n) == sha256 \o ReadChunk(rest, n)

\* the loop "while chunk: sha256.update(chunk); chunk = f.read(chunk_size)";
\* the accumulator of an ideal hash is the sequence of the bytes fed to it
RECURSIVE FoldChunks(_, _, _)
FoldChunks(sha256, rest, n) ==
    LET chunk == ReadChunk(rest, n)
    IN  IF chunk = <<>>
          THEN sha256
          ELSE FoldChunks(sha256 \o chunk,
                          SubSeq(rest, Len(chunk) + 1, Len(rest)), n)

\* sha256.hexdigest(): a non-empty string, one for each sequence of bytes
RECURSIVE hexdigest(_)
hexdigest(sha256) ==
    IF sha256 = <<>> THEN "sha256:"
    ELSE hexdigest(SubSeq(sha256, 1, Len(sha256) - 1))
            \o ToString(sha256[Len(sha256)])

\* faulty variant: only PermissionError is caught
HashHandlersNarrow == {"PermissionError"}

\* except (IOError, PermissionError)
HashHandlers == {"IOError", "PermissionError"}

\* FileScanner.compute_file_hash on a file with the given content and
\* fault: the value returned, the warnings printed, the exception raised
compute_file_hash(path, content, fault, chunk_size) ==
    IF fault.at \in {"open", "read"}
      THEN IF Catches(HashHandlers, fault.exc)
             THEN [value |-> FailureMarker,
                   diag |-> <<[warning |-> "Could not read", path |-> path]>>,
                   raised |-> "none"]
             ELSE [value |-> FailureMarker, diag |-> <<>>, raised |-> fault.exc]
      ELSE [value |-> hexdigest(FoldChunks(<<>>, content, chunk_size)),
            diag |-> <<>>,
            raised |-> "none"]

\* ------------------------------------------------------------------------
\* FileScanner.scan_directory
\* ------------------------------------------------------------------------
\* most entries that directory.rglob('*') yields for one directory
MaxEntries == 3

\* contents of the files in a scanned directory
TreeContents == {<<0>>, <<0, 1>>}

\* failures of the stat call: inside is_file() (permission denied on the
\* entry; entry removed after it was listed) and at item.stat() (entry
\* removed after is_file() saw it)
StatFaults ==
    {[at |-> "is_file", exc |-> "PermissionError"],
     [at |-> "is_file", exc |-> "FileNotFoundError"],
     [at |-> "stat", exc |-> "FileNotFoundError"]}

\* an entry of a directory tree, as rglob yields it
FileNode(path, content, fault) ==
    [path |-> path, kind |-> "file", content |-> content, target |-> 0,
     fault |-> fault]

DirNode(path) ==
    [path |-> path, kind |-> "dir", content |-> <<>>, target |-> 0,
     fault |-> NoFault]

\* a symbolic link to the entry with path target
LinkNode(path, target) ==
    [path |-> path, kind |-> "symlink", content |-> <<>>, target |-> target,
     fault |-> NoFault]

\* the entry that stat() and open() reach through item: the link's target
\* for a symbolic link (a missing target leaves the link itself)
Resolve(listing, item) ==
    IF item.kind = "symlink"
         /\ \E k \in 1..Len(listing) : listing[k].path = item.target
      THEN listing[CHOOSE k \in 1..Len(listing) : listing[k].path = item.target]
      ELSE item

\* pathlib's _ignore_error: ENOENT, ENOTDIR, EBADF, ELOOP
IgnoredErrors == {"FileNotFoundError"}

\* Path.is_file(): follows symbolic links; False for a missing entry or a
\* broken link; any other failure of stat is raised
is_file(listing, item) ==
    LET n == Resolve(listing, item)
    IN  IF n.fault.at = "is_file"
          THEN IF n.fault.exc \in IgnoredErrors
                 THEN [value |-> FALSE, raised |-> "none"]
                 ELSE [value |-> FALSE, raised |-> n.fault.exc]
          ELSE [value |-> n.kind = "file", raised |-> "none"]

\* except (OSError, PermissionError) in scan_directory
ScanHandlers == {"OSError", "PermissionError"}

\* stat.st_mtime, as an ISO string
MTimeOf(n) == CHOOSE t \in MTimes : TRUE

\* the result of a scan so far: records, warnings on stderr, and the
\* exception that left scan_directory ("none" when it returned)
NoScan == [files |-> <<>>, diag |-> <<>>, raised |-> "none"]

\* what the handler at the end of the try block does with exception exc
ScanExcept(acc, item, exc) ==
    IF Catches(ScanHandlers, exc)
      THEN [acc EXCEPT !.diag =
               Append(@, [warning |-> "Could not process", path |-> item.path])]
      ELSE [acc EXCEPT !.raised = exc]

\* "if file_hash: files.append(CloudFile(...))" with h the result of
\* compute_file_hash
ScanRecord(acc, item, n, provider, h) ==
    IF h.value # FailureMarker
      THEN [acc EXCEPT
              !.files = Append(@, CloudFile(item.path, Len(n.content), h.value,
                                            provider, MTimeOf(n))),
              !.diag = @ \o h.diag]
      ELSE [acc EXCEPT !.diag = @ \o h.diag]

\* faulty variant: a file that could not be read is read a second time
ScanItemRetry(acc, listing, item, provider, chunk_size) ==
    LET isf == is_file(listing, item)
        n == Resolve(listing, item)
    IN  IF isf.raised # "none" THEN [acc EXCEPT !.raised = isf.raised]
        ELSE IF ~isf.value THEN acc
        ELSE IF n.fault.at = "stat" THEN ScanExcept(acc, item, n.fault.exc)
        ELSE LET h == compute_file_hash(item.path, n.content, n.fault,
                                        chunk_size)
             IN  IF h.raised # "none"
                   THEN ScanExcept([acc EXCEPT !.diag = @ \o h.diag],
                                   item, h.raised)
                 ELSE IF h.value = FailureMarker
                   THEN ScanRecord([acc EXCEPT !.diag = @ \o h.diag],
                                   item, n, provider, h)
                   ELSE ScanRecord(acc, item, n, provider, h)

\* body of the loop "for item in directory.rglob('*')"
ScanItem(acc, listing, item, provider, chunk_size) ==
    LET isf == is_file(listing, item)
        n == Resolve(listing, item)
    IN  IF isf.raised # "none" THEN [acc EXCEPT !.raised = isf.raised]
        ELSE IF ~isf.value THEN acc
        ELSE IF n.fault.at = "stat" THEN ScanExcept(acc, item, n.fault.exc)
        ELSE LET h == compute_file_hash(item.path, n.content, n.fault,
                                        chunk_size)
             IN  IF h.raised # "none"
                   THEN ScanExcept([acc EXCEPT !.diag = @ \o h.diag],
                                   item, h.raised)
                   ELSE ScanRecord(acc, item, n, provider, h)

\* the loop: an exception that is not caught ends it
RECURSIVE ScanLoop(_, _, _, _, _)
ScanLoop(acc, listing, i, provider, chunk_size) ==
    IF i > Len(listing) \/ acc.raised # "none"
      THEN acc
      ELSE ScanLoop(ScanItem(acc, listing, listing[i], provider, chunk_size),
                    listing, i + 1, provider, chunk_size)

\* faulty variant: a missing directory is an error
scan_directory_strict(exists, listing, provider, chunk_size) ==
    IF ~exists
      THEN [files |-> <<>>, diag |-> <<>>, raised |-> "FileNotFoundError"]
      ELSE ScanLoop(NoScan, listing, 1, provider, chunk_size)

\* FileScanner.scan_directory; listing is what directory.rglob('*') yields,
\* in the order it yields it
scan_directory(exists, listing, provider, chunk_size) ==
    IF ~exists
      THEN NoScan
      ELSE ScanLoop(NoScan, listing, 1, provider, chunk_size)

\* ------------------------------------------------------------------------
\* main: the view of the worst offenders
\* ------------------------------------------------------------------------
\* the slice [:10]
TopCount == 10

\* sorted(..., key=lambda d: d.total_waste, reverse=True) is stable: a group
\* goes behind every group that wastes as much or more
InsertByWaste(sorted, d) ==
    LET k == Cardinality({i \in 1..Len(sorted) :
                             sorted[i].total_waste >= d.total_waste})
    IN  SubSeq(sorted, 1, k) \o <<d>> \o SubSeq(sorted, k + 1, Len(sorted))

RECURSIVE SortByWaste(_, _)
SortByWaste(sorted, rest) ==
    IF rest = <<>>
      THEN sorted
      ELSE SortByWaste(InsertByWaste(sorted, Head(rest)), Tail(rest))

\* sorted(duplicates, key=lambda d: d.total_waste, reverse=True)[:10]
sorted_dupes_of(duplicates) ==
    LET all == SortByWaste(<<>>, duplicates)
    IN  SubSeq(all, 1, IF Len(all) < TopCount THEN Len(all) ELSE TopCount)

\* ------------------------------------------------------------------------
\* ManifestGenerator.save_manifest
\* ------------------------------------------------------------------------
DefaultFilename == "cloud_manifest.json"

\* a directory: the entries rglob yields for it, whether it exists, whether
\* files can be created and written in it, and the provider it is scanned
\* for ("none" for a directory that is not a cloud directory)
Directory(provider, exists, writable, listing) ==
    [provider |-> provider, exists |-> exists, writable |-> writable,
     listing |-> listing]

\* positions in listing of the entry with the given path
Entries(listing, path) == {k \in 1..Len(listing) : listing[k].path = path}

\* open(path, 'w') and f.write(text): the file is created, or truncated, and
\* holds the text written; the content of a text file is the sequence of the
\* strings written to it
WriteText(listing, path, text) ==
    IF Entries(listing, path) = {}
      THEN Append(listing, FileNode(path, <<text>>, NoFault))
      ELSE [k \in 1..Len(listing) |->
               IF listing[k].path = path
                 THEN [listing[k] EXCEPT !.content = <<text>>]
                 ELSE listing[k]]

\* faulty variant: the file name given is ignored
OutputPathDefault(output_dir, filename) == <<output_dir, DefaultFilename>>

\* output_path = self.output_dir / filename
OutputPath(output_dir, filename) == <<output_dir, filename>>

\* faulty variant: a failure of open() is caught and the path returned
save_manifest_quiet(ds, output_dir, manifest_json_arg, filename) ==
    LET output_path == OutputPath(output_dir, filename)
    IN  IF ~(ds[output_dir].exists /\ ds[output_dir].writable)
          THEN [dirs |-> ds, path |-> output_path, raised |-> "none"]
          ELSE [dirs |-> [ds EXCEPT ![output_dir].listing =
                             WriteText(@, output_path, manifest_json_arg)],
                path |-> output_path,
                raised |-> "none"]

\* ManifestGenerator(output_dir).save_manifest(manifest_json, filename) on
\* the directories ds: the directories afterwards, the path returned, the
\* exception raised
save_manifest(ds, output_dir, manifest_json_arg, filename) ==
    LET output_path == OutputPath(output_dir, filename)
    IN  IF ~ds[output_dir].exists
          THEN [dirs |-> ds, path |-> output_path,
                raised |-> "FileNotFoundError"]
        ELSE IF ~ds[output_dir].writable
          THEN [dirs |-> ds, path |-> output_path,
                raised |-> "PermissionError"]
          ELSE [dirs |-> [ds EXCEPT ![output_dir].listing =
                             WriteText(@, output_path, manifest_json_arg)],
                path |-> output_path,
                raised |-> "none"]

\* ------------------------------------------------------------------------
\* State
\* ------------------------------------------------------------------------
VARIABLES
    files,          \* the records given to find_duplicates and generate_manifest
    duplicates,     \* the list returned by find_duplicates
    manifest_json,  \* the document returned by generate_manifest
    pc,             \* "scan", "start", "found", "shown", "generated",
                    \* "saved", "save_failed", "crashed"
    dirs,           \* the directories on disk; the cloud directories first
    scanned,        \* number of cloud directories scanned in this run
    diagnostics,    \* the warnings printed to stderr
    raised,         \* the exception that left the last call, or "none"
    sorted_dupes,   \* main's view of the worst offenders
    cwd,            \* Path.cwd(), the output_dir of ManifestGenerator()
    saved_path,     \* the path returned by save_manifest
    last_save,      \* the arguments of the last call of save_manifest and
                    \* what the file at the destination held before it
    run,            \* "first" or "second" run of main
    first_manifest, \* the manifest that the first run saved
    calls,          \* the calls of compute_file_hash to make
    results,        \* the results of the calls made
    item,           \* number of entries the loop of scan_directory has taken
    stat,           \* the stat result that the body of the loop holds
    response,       \* the answers typed at the prompt of main
    args,           \* the arguments of route_evidence_file
    uploads,        \* what each remote does with an upload
    locations,      \* the list locations of route_evidence_file
    custody         \* the local files and rows route_evidence_file wrote

pipeVars == <<files, duplicates, manifest_json, pc>>

worldVars == <<dirs, scanned, diagnostics, raised, sorted_dupes, cwd,
               saved_path, last_save, run, first_manifest>>

hashVars == <<calls, results>>

loopVars == <<item, stat>>

routeVars == <<args, uploads, locations, custody>>

restVars == <<loopVars, response, routeVars>>

vars == <<files, duplicates, manifest_json, pc, dirs, scanned, diagnostics,
          raised, sorted_dupes, cwd, saved_path, last_save, run,
          first_manifest, calls, results, item, stat, response, args,
          uploads, locations, custody>>

NoSave ==
    [output_dir |-> 0, filename |-> "", before |-> <<>>,
     after_failure |-> FALSE]

\* nothing on disk, nothing scanned, printed, raised or saved
NoWorld ==
    /\ dirs = <<>>
    /\ scanned = 0
    /\ diagnostics = <<>>
    /\ raised = "none"
    /\ sorted_dupes = <<>>
    /\ cwd = 0
    /\ saved_path = <<>>
    /\ last_save = NoSave
    /\ run = "first"
    /\ first_manifest = <<>>

NoCalls == calls = <<>> /\ results = <<>>

\* stat() has not been called for the entry at hand
NoStat == [held |-> FALSE, st_size |-> 0]

\* route_evidence_file has not been called
NoArgs ==
    [exists |-> FALSE, content |-> <<>>, local_only |-> FALSE,
     upload_to_backblaze |-> FALSE, upload_to_gdrive |-> FALSE]

\* no loop of scan_directory under way, nothing typed, nothing routed
NoRest ==
    /\ item = 0
    /\ stat = NoStat
    /\ response = <<>>
    /\ args = NoArgs
    /\ uploads = <<>>
    /\ locations = <<>>
    /\ custody = <<>>

\* a run over a list of at most MaxFiles records with hashes in H
InitOver(H) ==
    /\ \E n \in 0..MaxFiles :
          \E fl \in [1..n -> FileFields(H)] : files = FileList(fl)
    /\ duplicates = <<>>
    /\ manifest_json = <<>>
    /\ pc = "start"
    /\ NoWorld
    /\ NoCalls
    /\ NoRest

\* the records main collects: scan_directory builds a record only for a file
\* whose hash is not the failure marker
Init == InitOver(Digests)

\* find_duplicates called with any records, the failure marker included
InitMarked == InitOver(Hashes)

\* duplicates = finder.find_duplicates(all_files)
FindDuplicates ==
    /\ pc = "start"
    /\ duplicates' = find_duplicates(files)
    /\ pc' = "found"
    /\ UNCHANGED <<files, manifest_json>>
    /\ UNCHANGED <<worldVars, hashVars, restVars>>

\* manifest_json = generate_manifest(files, d): with the groups just found
\* (main) or with no groups (as the tests call it)
GenerateManifest ==
    /\ pc = "found"
    /\ \E d \in {duplicates, <<>>}, now \in Clock :
          manifest_json' = generate_manifest(files, d, now)
    /\ pc' = "generated"
    /\ UNCHANGED <<files, duplicates>>
    /\ UNCHANGED <<worldVars, hashVars, restVars>>

Next == FindDuplicates \/ GenerateManifest

Spec == Init /\ [][Next]_vars

SpecMarked == InitMarked /\ [][Next]_vars

\* ------------------------------------------------------------------------
\* Calls of compute_file_hash
\* ------------------------------------------------------------------------
\* a call FileScanner(chunk_size).compute_file_hash(path) on a file
HashCall(path, content, fault, chunk_size) ==
    [path |-> path, content |-> content, fault |-> fault,
     chunk_size |-> chunk_size]

\* two files at different paths, hashed by scanners of any chunk size; the
\* first file may fail to be read
InitHash ==
    /\ \E c1, c2 \in ContentsUpTo(MaxContent), n1, n2 \in ChunkSizes,
          f \in ReadFaults \cup {NoFault} :
          calls = <<HashCall(<<1, "f1">>, c1, f, n1),
                    HashCall(<<1, "f2">>, c2, NoFault, n2)>>
    /\ results = <<>>
    /\ files = <<>>
    /\ duplicates = <<>>
    /\ manifest_json = <<>>
    /\ pc = "hash"
    /\ NoWorld
    /\ NoRest

\* file_hash = scanner.compute_file_hash(path), for the next call
ComputeFileHash ==
    /\ pc = "hash"
    /\ Len(results) < Len(calls)
    /\ LET c == calls[Len(results) + 1]
       IN  results' = Append(results,
                   compute_file_hash(c.path, c.content, c.fault, c.chunk_size))
    /\ UNCHANGED <<calls, pipeVars, worldVars, restVars>>

NextHash == ComputeFileHash

SpecHash == InitHash /\ [][NextHash]_vars

\* ------------------------------------------------------------------------
\* Calls of scan_directory
\* ------------------------------------------------------------------------
EntryName(i) == "f" \o ToString(i)

\* the faults of the files of a scanned directory
TreeFaults ==
    StatFaults \cup {NoFault, [at |-> "open", exc |-> "PermissionError"]}

\* the shapes of the n entries of a directory: files, subdirectories and
\* symbolic links to another entry
EntryShapes(n) ==
    [kind : {"file"}, content : TreeContents, fault : TreeFaults, target : {0}]
      \cup [kind : {"dir"}, content : {<<>>}, fault : {NoFault}, target : {0}]
      \cup [kind : {"symlink"}, content : {<<>>}, fault : {NoFault},
            target : 1..n]

\* a link points to another entry, which is not a link
LinksOk(sh) ==
    \A i \in 1..Len(sh) :
        sh[i].kind = "symlink" =>
            sh[i].target # i /\ sh[sh[i].target].kind # "symlink"

\* the listing of directory d whose i-th entry has shape sh[i]
Listing(d, sh) ==
    [i \in 1..Len(sh) |->
        [path |-> <<d, EntryName(i)>>,
         kind |-> sh[i].kind,
         content |-> sh[i].content,
         target |-> IF sh[i].kind = "symlink"
                      THEN <<d, EntryName(sh[i].target)>> ELSE 0,
         fault |-> sh[i].fault]]

\* the part of the state that a run of main starts from
RunStart ==
    /\ files = <<>>
    /\ duplicates = <<>>
    /\ manifest_json = <<>>
    /\ scanned = 0
    /\ diagnostics = <<>>
    /\ raised = "none"
    /\ sorted_dupes = <<>>
    /\ saved_path = <<>>
    /\ last_save = NoSave
    /\ run = "first"
    /\ first_manifest = <<>>
    /\ pc = "scan"

\* one directory, missing or with at most MaxEntries entries, to scan for
\* one provider
InitScan ==
    /\ \E p \in ProviderTags :
          \/ dirs = <<Directory(p, FALSE, FALSE, <<>>)>>
          \/ \E n \in 0..MaxEntries :
                \E sh \in [1..n -> EntryShapes(n)] :
                    /\ LinksOk(sh)
                    /\ dirs = <<Directory(p, TRUE, TRUE, Listing(1, sh))>>
    /\ cwd = 0
    /\ RunStart
    /\ NoCalls
    /\ NoRest

\* the cloud directories, in the order main scans them
NumCloud == Cardinality({d \in 1..Len(dirs) : dirs[d].provider # "none"})

\* faulty variant: the loop over the cloud directories ends after the first
ScanDirectoryFirstOnly ==
    /\ pc = "scan"
    /\ scanned < NumCloud
    /\ LET d == dirs[scanned + 1]
           r == scan_directory(d.exists, d.listing, d.provider,
                               DefaultChunkSize)
       IN  /\ diagnostics' = diagnostics \o r.diag
           /\ raised' = r.raised
           /\ IF r.raised # "none"
                THEN /\ pc' = "crashed"
                     /\ UNCHANGED <<files, scanned>>
                ELSE /\ files' = files \o r.files
                     /\ scanned' = scanned + 1
                     /\ pc' = "start"
    /\ UNCHANGED <<duplicates, manifest_json, dirs, sorted_dupes, cwd,
                   saved_path, last_save, run, first_manifest, hashVars, restVars>>

\* files = scanner.scan_directory(directory, provider);
\* all_files.extend(files), for the next cloud directory
ScanDirectory ==
    /\ pc = "scan"
    /\ scanned < NumCloud
    /\ LET d == dirs[scanned + 1]
           r == scan_directory(d.exists, d.listing, d.provider,
                               DefaultChunkSize)
       IN  /\ diagnostics' = diagnostics \o r.diag
           /\ raised' = r.raised
           /\ IF r.raised # "none"
                THEN /\ pc' = "crashed"
                     /\ UNCHANGED <<files, scanned>>
                ELSE /\ files' = files \o r.files
                     /\ scanned' = scanned + 1
                     /\ pc' = IF scanned + 1 = NumCloud THEN "start" ELSE "scan"
    /\ UNCHANGED <<duplicates, manifest_json, dirs, sorted_dupes, cwd,
                   saved_path, last_save, run, first_manifest, hashVars, restVars>>

NextScan == ScanDirectory

SpecScan == InitScan /\ [][NextScan]_vars

\* ------------------------------------------------------------------------
\* A directory tree and directory.rglob('*')
\* ------------------------------------------------------------------------
\* the shapes of the entries of a tree: files, readable or not, and
\* subdirectories
TreeShapes ==
    [kind : {"file"}, content : TreeContents,
     fault : {NoFault, [at |-> "open", exc |-> "PermissionError"]},
     target : {0}]
      \cup [kind : {"dir"}, content : {<<>>}, fault : {NoFault}, target : {0}]

\* parent[i] is the subdirectory that holds entry i, 0 for the scanned
\* directory itself
ParentsOk(sh, parent) ==
    \A i \in 1..Len(sh) :
        IF parent[i] = 0
          THEN TRUE
          ELSE parent[i] < i /\ sh[parent[i]].kind = "dir"

\* the path of entry i of directory d
RECURSIVE PathIn(_, _, _)
PathIn(d, parent, i) ==
    IF i = 0 THEN <<d>>
    ELSE Append(PathIn(d, parent, parent[i]), EntryName(i))

\* the entries of the tree below directory d
TreeNodes(d, sh, parent) ==
    [i \in 1..Len(sh) |->
        [path |-> PathIn(d, parent, i),
         kind |-> sh[i].kind,
         content |-> sh[i].content,
         target |-> 0,
         fault |-> sh[i].fault,
         parent |-> parent[i]]]

\* the entries held by entry p, each subdirectory followed by what it holds
RECURSIVE Walk(_, _, _)
Walk(nodes, p, i) ==
    IF i > Len(nodes) THEN <<>>
    ELSE IF nodes[i].parent = p
      THEN <<nodes[i]>>
             \o (IF nodes[i].kind = "dir" THEN Walk(nodes, i, i + 1) ELSE <<>>)
             \o Walk(nodes, p, i + 1)
      ELSE Walk(nodes, p, i + 1)

\* faulty variant: directory.glob('*'), the entries of the directory itself
glob_star(nodes) ==
    SelectSeq(nodes, LAMBDA n : n.parent = 0)

\* directory.rglob('*'): the entries at every depth
rglob(nodes) == Walk(nodes, 0, 1)

\* a cloud directory with the tree below it and what rglob yields for it
TreeDirectory(provider, nodes) ==
    [provider |-> provider, exists |-> TRUE, writable |-> TRUE,
     tree |-> nodes, listing |-> rglob(nodes)]

\* one directory with a tree of at most MaxEntries entries below it
InitTree ==
    /\ \E p \in ProviderTags, n \in 0..MaxEntries :
          \E sh \in [1..n -> TreeShapes], parent \in [1..n -> 0..n] :
              /\ ParentsOk(sh, parent)
              /\ dirs = <<TreeDirectory(p, TreeNodes(1, sh, parent))>>
    /\ cwd = 0
    /\ RunStart
    /\ NoCalls
    /\ NoRest

NextTree == ScanDirectory

SpecTree == InitTree /\ [][NextTree]_vars

\* ------------------------------------------------------------------------
\* main: scan, find duplicates, show, generate, save
\* ------------------------------------------------------------------------
\* the listing of directory d with readable files of the given contents
HealthyListing(d, cs) ==
    [i \in 1..Len(cs) |-> FileNode(<<d, EntryName(i)>>, cs[i], NoFault)]

\* what open(path).read() returns: the strings written to the file, nothing
\* when there is no such file
ReadText(ds, path) ==
    LET listing == ds[path[1]].listing
    IN  IF Entries(listing, path) = {}
          THEN <<>>
          ELSE listing[CHOOSE k \in Entries(listing, path) : TRUE].content

\* the directories of a run of main: one cloud directory of each provider,
\* with at most n1 and n2 readable files, and a directory that is not a cloud
\* directory, writable or not
DirsOver(n1, n2) ==
    \E k1 \in 0..n1, k2 \in 0..n2, w \in BOOLEAN :
        \E c1 \in [1..k1 -> TreeContents], c2 \in [1..k2 -> TreeContents] :
            dirs = <<Directory("google_drive", TRUE, TRUE,
                               HealthyListing(1, c1)),
                     Directory("onedrive", TRUE, TRUE, HealthyListing(2, c2)),
                     Directory("none", TRUE, w, <<>>)>>

\* main is started in any of the directories
InitMain ==
    /\ DirsOver(MaxEntries, MaxEntries)
    /\ cwd \in 1..3
    /\ RunStart
    /\ NoCalls
    /\ NoRest

\* "if duplicates: sorted_dupes = sorted(...)[:10]"
MainShow ==
    /\ pc = "found"
    /\ sorted_dupes' = IF duplicates # <<>>
                         THEN sorted_dupes_of(duplicates)
                         ELSE sorted_dupes
    /\ pc' = "shown"
    /\ UNCHANGED <<files, duplicates, manifest_json, dirs, scanned,
                   diagnostics, raised, cwd, saved_path, last_save, run,
                   first_manifest, hashVars, restVars>>

\* manifest_json = manifest_gen.generate_manifest(all_files, duplicates)
MainGenerate ==
    /\ pc = "shown"
    /\ \E now \in Clock :
          manifest_json' = generate_manifest(files, duplicates, now)
    /\ pc' = "generated"
    /\ UNCHANGED <<files, duplicates, worldVars, hashVars, restVars>>

\* manifest_path = ManifestGenerator().save_manifest(manifest_json); an
\* exception ends main
MainSave ==
    /\ pc = "generated"
    /\ LET r == save_manifest(dirs, cwd, manifest_json, DefaultFilename)
       IN  /\ dirs' = r.dirs
           /\ raised' = r.raised
           /\ saved_path' = IF r.raised = "none" THEN r.path ELSE saved_path
           /\ pc' = IF r.raised = "none" THEN "saved" ELSE "crashed"
           /\ last_save' = [output_dir |-> cwd, filename |-> DefaultFilename,
                            before |-> ReadText(dirs, r.path),
                            after_failure |-> FALSE]
    /\ UNCHANGED <<files, duplicates, manifest_json, scanned, diagnostics,
                   sorted_dupes, cwd, run, first_manifest, hashVars, restVars>>

NextMain ==
    \/ ScanDirectory
    \/ FindDuplicates
    \/ MainShow
    \/ MainGenerate
    \/ MainSave

SpecMain == InitMain /\ [][NextMain]_vars

\* ------------------------------------------------------------------------
\* scan_directory statement by statement, next to a process that writes
\* ------------------------------------------------------------------------
\* one directory of at most MaxEntries readable files
InitSync ==
    /\ \E p \in ProviderTags, n \in 0..MaxEntries :
          \E cs \in [1..n -> TreeContents] :
              dirs = <<Directory(p, TRUE, TRUE, HealthyListing(1, cs))>>
    /\ cwd = 0
    /\ RunStart
    /\ NoCalls
    /\ NoRest

\* the loop takes the next entry: "if item.is_file(): stat = item.stat()"
StatItem ==
    /\ pc = "scan"
    /\ ~stat.held
    /\ item < Len(dirs[1].listing)
    /\ LET n == dirs[1].listing[item + 1]
       IN  stat' = IF is_file(dirs[1].listing, n).value
                     THEN [held |-> TRUE, st_size |-> Len(n.content)]
                     ELSE stat
    /\ item' = item + 1
    /\ UNCHANGED <<pipeVars, worldVars, hashVars, response, routeVars>>

\* file_hash = self.compute_file_hash(item);
\* "if file_hash: files.append(CloudFile(..., size=stat.st_size, ...))"
HashItem ==
    /\ pc = "scan"
    /\ stat.held
    /\ LET n == dirs[1].listing[item]
           h == compute_file_hash(n.path, n.content, n.fault,
                                  DefaultChunkSize)
       IN  /\ files' = IF h.value # FailureMarker
                         THEN Append(files,
                                  CloudFile(n.path, stat.st_size, h.value,
                                            dirs[1].provider, MTimeOf(n)))
                         ELSE files
           /\ diagnostics' = diagnostics \o h.diag
    /\ stat' = NoStat
    /\ UNCHANGED <<duplicates, manifest_json, pc, dirs, scanned, raised,
                   sorted_dupes, cwd, saved_path, last_save, run,
                   first_manifest, hashVars, item, response, routeVars>>

\* "return files"
ScanReturn ==
    /\ pc = "scan"
    /\ ~stat.held
    /\ item = Len(dirs[1].listing)
    /\ scanned' = scanned + 1
    /\ pc' = "start"
    /\ UNCHANGED <<files, duplicates, manifest_json, dirs, diagnostics,
                   raised, sorted_dupes, cwd, saved_path, last_save, run,
                   first_manifest, hashVars, restVars>>

\* another process, a cloud sync client for one, rewrites a file of the
\* directory while the scan runs
SyncWrite ==
    /\ pc = "scan"
    /\ \E k \in 1..Len(dirs[1].listing), c \in TreeContents :
          /\ dirs[1].listing[k].content # c
          /\ dirs' = [dirs EXCEPT ![1].listing[k].content = c]
    /\ UNCHANGED <<pipeVars, scanned, diagnostics, raised, sorted_dupes,
                   cwd, saved_path, last_save, run, first_manifest, hashVars,
                   restVars>>

NextSync ==
    \/ StatItem
    \/ HashItem
    \/ ScanReturn
    \/ SyncWrite

SpecSync == InitSync /\ [][NextSync]_vars

\* ------------------------------------------------------------------------
\* main from its first statement: detection and the prompt
\* ------------------------------------------------------------------------
\* answers typed at the prompt
Responses == {"yes", "y", "YES", "Yes", "Y", "no", "", "yes please", " y"}

\* str.lower on the answers
Lower(r) ==
    CASE r = "YES" -> "yes"
      [] r = "Yes" -> "yes"
      [] r = "Y" -> "y"
      [] OTHER -> r

\* main is called: on a system with no cloud directory, or with one cloud
\* directory of each provider
InitPrompt ==
    /\ \/ /\ dirs = <<Directory("none", TRUE, TRUE, <<>>)>>
          /\ cwd = 1
       \/ /\ DirsOver(MaxEntries, 1)
          /\ cwd \in 1..3
    /\ files = <<>>
    /\ duplicates = <<>>
    /\ manifest_json = <<>>
    /\ scanned = 0
    /\ diagnostics = <<>>
    /\ raised = "none"
    /\ sorted_dupes = <<>>
    /\ saved_path = <<>>
    /\ last_save = NoSave
    /\ run = "first"
    /\ first_manifest = <<>>
    /\ pc = "detect"
    /\ NoCalls
    /\ NoRest

\* cloud_dirs = detector.detect_cloud_directories();
\* "if not cloud_dirs: return"
MainDetect ==
    /\ pc = "detect"
    /\ pc' = IF NumCloud = 0 THEN "ended" ELSE "confirm"
    /\ UNCHANGED <<files, duplicates, manifest_json, worldVars, hashVars,
                   restVars>>

\* faulty variant: the scan starts whatever is answered
MainConfirmAny ==
    /\ pc = "confirm"
    /\ \E r \in Responses : response' = Append(response, r)
    /\ pc' = "scan"
    /\ UNCHANGED <<files, duplicates, manifest_json, worldVars, hashVars,
                   loopVars, routeVars>>

\* response = input(...);
\* "if response.lower() not in ['yes', 'y']: return"
MainConfirm ==
    /\ pc = "confirm"
    /\ \E r \in Responses :
          /\ response' = Append(response, r)
          /\ pc' = IF Lower(r) \notin {"yes", "y"} THEN "ended" ELSE "scan"
    /\ UNCHANGED <<files, duplicates, manifest_json, worldVars, hashVars,
                   loopVars, routeVars>>

NextPrompt ==
    \/ MainDetect
    \/ MainConfirm
    \/ NextMain

SpecPrompt == InitPrompt /\ [][NextPrompt]_vars

\* ------------------------------------------------------------------------
\* main run twice over the same files
\* ------------------------------------------------------------------------
\* the orders in which a walk can yield n entries
Perms(n) ==
    {p \in [1..n -> 1..n] : \A i, j \in 1..n : p[i] = p[j] => i = j}

\* main is started outside the cloud directories
InitTwice ==
    /\ DirsOver(MaxEntries, 1)
    /\ cwd = 3
    /\ RunStart
    /\ NoCalls
    /\ NoRest

\* main is started again: the files are the same, and rglob yields the
\* entries of the first cloud directory in an order of the file system's
\* choosing
Rerun ==
    /\ pc = "saved"
    /\ run = "first"
    /\ \E p \in Perms(Len(dirs[1].listing)) :
          dirs' = [dirs EXCEPT ![1].listing = [i \in 1..Len(@) |-> @[p[i]]]]
    /\ first_manifest' = manifest_json
    /\ run' = "second"
    /\ files' = <<>>
    /\ duplicates' = <<>>
    /\ manifest_json' = <<>>
    /\ scanned' = 0
    /\ diagnostics' = <<>>
    /\ raised' = "none"
    /\ sorted_dupes' = <<>>
    /\ saved_path' = <<>>
    /\ last_save' = NoSave
    /\ pc' = "scan"
    /\ UNCHANGED <<cwd, hashVars, restVars>>

NextTwice == NextMain \/ Rerun

SpecTwice == InitTwice /\ [][NextTwice]_vars

\* ------------------------------------------------------------------------
\* The worst offenders among the groups of any list of records
\* ------------------------------------------------------------------------
NextShow == FindDuplicates \/ MainShow

SpecShow == Init /\ [][NextShow]_vars

\* ------------------------------------------------------------------------
\* Calls of save_manifest
\* ------------------------------------------------------------------------
\* the documents saved
Docs == {generate_manifest(<<>>, <<>>, now) : now \in Clock}

\* the file names given to save_manifest: the default, and the tests' name
Filenames == {DefaultFilename, "test.json"}

\* the states of an output directory d: missing, or there, writable or not,
\* empty or with a file saved earlier
OutputDirs(d) ==
    {Directory("none", FALSE, FALSE, <<>>)}
      \cup {Directory("none", TRUE, w, l) :
              w \in BOOLEAN,
              l \in {<<>>} \cup {<<FileNode(<<d, fn>>, <<doc>>, NoFault)>> :
                                   fn \in Filenames, doc \in Docs}}

\* a manifest has been generated; two directories to save it to
InitSave ==
    /\ \E d1 \in OutputDirs(1), d2 \in OutputDirs(2) : dirs = <<d1, d2>>
    /\ manifest_json \in Docs
    /\ files = <<>>
    /\ duplicates = <<>>
    /\ pc = "generated"
    /\ scanned = 0
    /\ diagnostics = <<>>
    /\ raised = "none"
    /\ sorted_dupes = <<>>
    /\ cwd = 1
    /\ saved_path = <<>>
    /\ last_save = NoSave
    /\ run = "first"
    /\ first_manifest = <<>>
    /\ NoCalls
    /\ NoRest

\* ManifestGenerator(output_dir).save_manifest(manifest_json, filename), by a
\* caller that catches the exception and may save again
SaveManifest ==
    /\ pc \in {"generated", "saved", "save_failed"}
    /\ \E d \in 1..Len(dirs), fn \in Filenames :
          LET r == save_manifest(dirs, d, manifest_json, fn)
          IN  /\ dirs' = r.dirs
              /\ raised' = r.raised
              /\ saved_path' = IF r.raised = "none" THEN r.path ELSE saved_path
              /\ pc' = IF r.raised = "none" THEN "saved" ELSE "save_failed"
              /\ last_save' = [output_dir |-> d, filename |-> fn,
                               before |-> ReadText(dirs, r.path),
                               after_failure |-> pc = "save_failed"]
    /\ UNCHANGED <<files, duplicates, manifest_json, scanned, diagnostics,
                   sorted_dupes, cwd, run, first_manifest, hashVars, restVars>>

NextSave == SaveManifest

SpecSave == InitSave /\ [][NextSave]_vars

\* ------------------------------------------------------------------------
\* scripts/route_evidence.py: route_evidence_file
\* ------------------------------------------------------------------------
\* f.read(8192) in calculate_hash
RouteChunk == 8192

\* calculate_hash(filepath): SHA256 of the file, read chunk by chunk
calculate_hash(content) == hexdigest(FoldChunks(<<>>, content, RouteChunk))

\* what a remote does with "rclone copy" and answers to "rclone hashsum":
\* the copy fails; hashsum fails; hashsum prints nothing; hashsum prints a
\* blank line; the remote holds other bytes than the source; all is well
Outcomes ==
    {"ok", "copy_failed", "hashsum_failed", "no_output", "blank_output",
     "mismatch"}

\* the same for an upload that is never asked for its hash
CopyOutcomes == {"ok", "copy_failed", "mismatch"}

\* the bytes a remote holds after a transfer that damaged them
Corrupted(content) == Append(content, 1)

\* faulty variant: the hash of the remote copy is taken from the source
copy_to_cloud_trusting(content, outcome, verify) ==
    IF outcome = "copy_failed"
      THEN [value |-> "None", raised |-> "Exception"]
    ELSE IF ~verify
      THEN [value |-> "None", raised |-> "none"]
      ELSE [value |-> calculate_hash(content), raised |-> "none"]

\* copy_to_cloud(source_path, remote, dest_folder, verify) on a remote that
\* behaves as outcome says: the remote hash returned (the string "None" for
\* None) and the exception raised
copy_to_cloud(content, outcome, verify) ==
    IF outcome = "copy_failed"
      THEN [value |-> "None", raised |-> "Exception"]
    ELSE IF ~verify
      THEN [value |-> "None", raised |-> "none"]
    ELSE IF outcome = "hashsum_failed"
      THEN [value |-> "None", raised |-> "Exception"]
    ELSE IF outcome = "no_output"
      THEN [value |-> "None", raised |-> "none"]
    ELSE IF outcome = "blank_output"
      THEN [value |-> "None", raised |-> "IndexError"]
    ELSE IF outcome = "mismatch"
      THEN [value |-> calculate_hash(Corrupted(content)), raised |-> "none"]
      ELSE [value |-> calculate_hash(content), raised |-> "none"]

\* the local variable file_hash
file_hash == calculate_hash(args.content)

\* a file or a row that route_evidence_file writes on the local disk
Artefact(kind, hash, locs) ==
    [kind |-> kind, hash |-> hash, locations |-> locs]

\* route_evidence_file is called with any flags, on a file that is there or
\* not
InitRoute ==
    /\ \E e, lo, b2, gd \in BOOLEAN, c \in TreeContents :
          args = [exists |-> e, content |-> c, local_only |-> lo,
                  upload_to_backblaze |-> b2, upload_to_gdrive |-> gd]
    /\ uploads = <<>>
    /\ locations = <<>>
    /\ custody = <<>>
    /\ item = 0
    /\ stat = NoStat
    /\ response = <<>>
    /\ files = <<>>
    /\ duplicates = <<>>
    /\ manifest_json = <<>>
    /\ pc = "route"
    /\ NoWorld
    /\ NoCalls

\* "if not source.exists(): raise FileNotFoundError";
\* file_hash = calculate_hash(source_path); locations = []
RouteStart ==
    /\ pc = "route"
    /\ IF ~args.exists
         THEN raised' = "FileNotFoundError" /\ pc' = "crashed"
         ELSE raised' = raised /\ pc' = "onedrive"
    /\ UNCHANGED <<files, duplicates, manifest_json, dirs, scanned,
                   diagnostics, sorted_dupes, cwd, saved_path, last_save, run,
                   first_manifest, hashVars, restVars>>

\* step 2: the upload to OneDrive, verified; any failure is raised again
RouteOneDrive ==
    /\ pc = "onedrive"
    /\ IF args.local_only
         THEN /\ pc' = "b2"
              /\ UNCHANGED <<raised, uploads, locations>>
         ELSE \E o \in Outcomes :
                LET r == copy_to_cloud(args.content, o, TRUE)
                IN  /\ uploads' = Append(uploads, [remote |-> "onedrive",
                                                   outcome |-> o])
                    /\ IF r.raised # "none"
                         THEN /\ raised' = r.raised
                              /\ pc' = "crashed"
                              /\ UNCHANGED locations
                       ELSE IF r.value = file_hash
                         THEN /\ locations' = Append(locations,
                                                     "OneDrive/Masters")
                              /\ pc' = "b2"
                              /\ UNCHANGED raised
                         ELSE /\ raised' = "Exception"
                              /\ pc' = "crashed"
                              /\ UNCHANGED locations
    /\ UNCHANGED <<files, duplicates, manifest_json, dirs, scanned,
                   diagnostics, sorted_dupes, cwd, saved_path, last_save, run,
                   first_manifest, hashVars, loopVars, response, args,
                   custody>>

\* step 3: the upload to Backblaze, verified; "except Exception" prints and
\* goes on
RouteBackblaze ==
    /\ pc = "b2"
    /\ IF ~args.local_only /\ args.upload_to_backblaze
         THEN \E o \in Outcomes :
                LET r == copy_to_cloud(args.content, o, TRUE)
                IN  /\ uploads' = Append(uploads, [remote |-> "b2",
                                                   outcome |-> o])
                    /\ IF r.raised # "none"
                            /\ ~Catches({"Exception"}, r.raised)
                         THEN /\ raised' = r.raised
                              /\ pc' = "crashed"
                              /\ UNCHANGED locations
                         ELSE /\ locations' =
                                    IF r.raised = "none" /\ r.value = file_hash
                                      THEN Append(locations,
                                                  "Backblaze/evidence-masters")
                                      ELSE locations
                              /\ pc' = "gdrive"
                              /\ UNCHANGED raised
         ELSE /\ pc' = "gdrive"
              /\ UNCHANGED <<raised, uploads, locations>>
    /\ UNCHANGED <<files, duplicates, manifest_json, dirs, scanned,
                   diagnostics, sorted_dupes, cwd, saved_path, last_save, run,
                   first_manifest, hashVars, loopVars, response, args,
                   custody>>

\* step 4: the upload to Google Drive, with verify=False
RouteGDrive ==
    /\ pc = "gdrive"
    /\ IF ~args.local_only /\ args.upload_to_gdrive
         THEN \E o \in CopyOutcomes :
                LET r == copy_to_cloud(args.content, o, FALSE)
                IN  /\ uploads' = Append(uploads, [remote |-> "gdrive",
                                                   outcome |-> o])
                    /\ IF r.raised # "none"
                            /\ ~Catches({"Exception"}, r.raised)
                         THEN /\ raised' = r.raised
                              /\ pc' = "crashed"
                              /\ UNCHANGED locations
                         ELSE /\ locations' =
                                    IF r.raised = "none"
                                      THEN Append(locations,
                                                  "GDrive/Evidence/Working")
                                      ELSE locations
                              /\ pc' = "copy"
                              /\ UNCHANGED raised
         ELSE /\ pc' = "copy"
              /\ UNCHANGED <<raised, uploads, locations>>
    /\ UNCHANGED <<files, duplicates, manifest_json, dirs, scanned,
                   diagnostics, sorted_dupes, cwd, saved_path, last_save, run,
                   first_manifest, hashVars, loopVars, response, args,
                   custody>>

\* step 5: shutil.copy2(source, working_copy)
RouteWorkingCopy ==
    /\ pc = "copy"
    /\ custody' = Append(custody, Artefact("working_copy", file_hash, <<>>))
    /\ locations' = Append(locations, "Local/Working-Copies")
    /\ pc' = "log"
    /\ UNCHANGED <<files, duplicates, manifest_json, worldVars, hashVars,
                   loopVars, response, args, uploads>>

\* step 6: log_custody(action='ACQUIRED', ..., locations=locations)
RouteLog ==
    /\ pc = "log"
    /\ custody' = Append(custody, Artefact("ACQUIRED", file_hash, locations))
    /\ pc' = "manifest"
    /\ UNCHANGED <<files, duplicates, manifest_json, worldVars, hashVars,
                   loopVars, response, args, uploads, locations>>

\* json.dump(manifest, f): the manifest of the file
RouteManifest ==
    /\ pc = "manifest"
    /\ custody' = Append(custody, Artefact("manifest", file_hash, locations))
    /\ pc' = "routed"
    /\ UNCHANGED <<files, duplicates, manifest_json, worldVars, hashVars,
                   loopVars, response, args, uploads, locations>>

NextRoute ==
    \/ RouteStart
    \/ RouteOneDrive
    \/ RouteBackblaze
    \/ RouteGDrive
    \/ RouteWorkingCopy
    \/ RouteLog
    \/ RouteManifest

SpecRoute == InitRoute /\ [][NextRoute]_vars

\* ------------------------------------------------------------------------
\* Vocabulary of the properties
\* ------------------------------------------------------------------------
\* positions of the input records that carry digest h
IndicesOf(h) == {i \in 1..Len(files) : files[i].hash = h}

\* provider tags under which digest h occurs in the input
ProvidersOfHash(h) == {files[i].cloud_provider : i \in IndicesOf(h)}

\* positions of the returned groups whose digest is h
GroupsOf(h) == {g \in 1..Len(duplicates) : duplicates[g].hash = h}

\* members of group d, as a set of records
MemberSet(d) == {d.files[j] : j \in 1..Len(d.files)}

\* input records that are a member of no returned group
Ungrouped ==
    {i \in 1..Len(files) :
        \A g \in 1..Len(duplicates) : files[i] \notin MemberSet(duplicates[g])}

\* f[1] + ... + f[n]
RECURSIVE Total(_, _)
Total(f, n) == IF n = 0 THEN 0 ELSE f[n] + Total(f, n - 1)

\* sum of f over the finite set S
RECURSIVE SumOver(_, _)
SumOver(f, S) ==
    IF S = {} THEN 0
    ELSE LET x == CHOOSE y \in S : TRUE IN f[x] + SumOver(f, S \ {x})

\* the manifest document, read back
Parsed == json_loads(manifest_json)

\* ------------------------------------------------------------------------
\* Properties of find_duplicates
\* ------------------------------------------------------------------------
\* C1: every group returned by find_duplicates has members from at least two
\* distinct providers, and a digest whose records all carry one provider has
\* no group, however many same-provider copies of it there are.
C1_CrossProviderOnly ==
    pc # "start" =>
        /\ \A g \in 1..Len(duplicates) :
              Cardinality({duplicates[g].files[j].cloud_provider :
                              j \in 1..Len(duplicates[g].files)}) >= 2
        /\ \A h \in Hashes :
              Cardinality(ProvidersOfHash(h)) = 1 => GroupsOf(h) = {}

\* a digest with several copies under one provider, next to a genuine group
C1_Witness ==
    /\ pc = "found"
    /\ duplicates # <<>>
    /\ \E h \in Hashes :
          /\ Cardinality(IndicesOf(h)) >= 2
          /\ Cardinality(ProvidersOfHash(h)) = 1

\* C2: find_duplicates returns exactly one group for each digest that occurs
\* under two or more distinct providers, and the members of that group are
\* all and only the input records carrying the digest.
C2_OneGroupPerCrossDigest ==
    pc # "start" =>
        \A h \in Hashes :
            Cardinality(ProvidersOfHash(h)) >= 2 =>
                /\ Cardinality(GroupsOf(h)) = 1
                /\ \A g \in GroupsOf(h) :
                      /\ MemberSet(duplicates[g]) = {files[i] : i \in IndicesOf(h)}
                      /\ Len(duplicates[g].files) = Cardinality(IndicesOf(h))

\* two digests occur under both providers and each has its group
C2_Witness ==
    /\ pc = "found"
    /\ Len(duplicates) = 2
    /\ duplicates[1].hash # duplicates[2].hash
    /\ Len(duplicates[1].files) = 2
    /\ Len(duplicates[2].files) = 2

\* C3: every returned group has total_waste = size * (number of members - 1).
C3_WasteFormula ==
    pc # "start" =>
        \A g \in 1..Len(duplicates) :
            duplicates[g].total_waste =
                duplicates[g].size * (Len(duplicates[g].files) - 1)

\* a group of three non-empty copies
C3_Witness ==
    /\ pc = "found"
    /\ \E g \in 1..Len(duplicates) :
          /\ Len(duplicates[g].files) = 3
          /\ duplicates[g].size > 0
          /\ duplicates[g].total_waste = 2 * duplicates[g].size

\* C4: in every returned group the size field equals the size of every
\* member (a group whose members differ in size is not emitted).
C4_SizeOfEveryMember ==
    pc # "start" =>
        \A g \in 1..Len(duplicates) :
            \A j \in 1..Len(duplicates[g].files) :
                duplicates[g].files[j].size = duplicates[g].size

\* C5: no record with the failure marker as its hash is indexed: no group has
\* the empty hash and no member of a group has it, for every input list, also
\* one that holds records with the failure marker (SpecMarked).
C5_NoEmptyHashIndexed ==
    pc # "start" =>
        \A g \in 1..Len(duplicates) :
            /\ duplicates[g].hash # FailureMarker
            /\ \A j \in 1..Len(duplicates[g].files) :
                  duplicates[g].files[j].hash # FailureMarker

\* C6: the sum of total_waste over the returned groups is at most the sum of
\* the sizes of all input records.
C6_WasteBoundedBySizes ==
    pc # "start" =>
        Total([g \in 1..Len(duplicates) |-> duplicates[g].total_waste],
              Len(duplicates))
          <= Total([i \in 1..Len(files) |-> files[i].size], Len(files))

\* ------------------------------------------------------------------------
\* Properties of the manifest
\* ------------------------------------------------------------------------
\* C7: total_files of the manifest is the number of input records, whatever
\* groups were passed and whether or not a record is in a group.
C7_TotalFilesIsInputCount ==
    pc = "generated" => Parsed.total_files = Len(files)

\* a manifest with a group and with a record outside every group
C7_Witness ==
    /\ pc = "generated"
    /\ Parsed.duplicates # <<>>
    /\ Ungrouped # {}
    /\ Parsed.total_files = Len(files)

\* C8: summary.total_size_bytes is the sum of the sizes of all input records,
\* each counted once, and not a value recovered from total_size_gb.
C8_TotalSizeBytesExact ==
    pc = "generated" =>
        Parsed.summary.total_size_bytes =
            Total([i \in 1..Len(files) |-> files[i].size], Len(files))

\* the rounded gigabytes do not give the bytes back, and two records have
\* the same size
C8_Witness ==
    /\ pc = "generated"
    /\ Parsed.summary.total_size_gb > 0
    /\ Parsed.summary.total_size_gb * (GiB \div 100)
          # Parsed.summary.total_size_bytes
    /\ \E i, j \in 1..Len(files) :
          i # j /\ files[i].size = files[j].size /\ files[i].size > 0
    /\ Ungrouped # {}

\* C9: summary.total_waste_bytes equals the sum of total_waste over the
\* manifest's own duplicates list.
C9_WasteBytesRecomputable ==
    pc = "generated" =>
        Parsed.summary.total_waste_bytes =
            Total([g \in 1..Len(Parsed.duplicates) |->
                      Parsed.duplicates[g].total_waste],
                  Len(Parsed.duplicates))

\* a manifest with two groups that both waste bytes
C9_Witness ==
    /\ pc = "generated"
    /\ Len(Parsed.duplicates) = 2
    /\ Parsed.duplicates[1].total_waste > 0
    /\ Parsed.duplicates[2].total_waste > 0
    /\ Parsed.summary.total_waste_bytes > Parsed.duplicates[1].total_waste

\* C10: files_per_provider has an entry exactly for the provider tags that
\* occur in the input, each entry is the number of input records with that
\* tag, and the entries sum to total_files.
C10_FilesPerProvider ==
    pc = "generated" =>
        LET fpp == Parsed.summary.files_per_provider
        IN  /\ DOMAIN fpp = {files[i].cloud_provider : i \in 1..Len(files)}
            /\ \A p \in DOMAIN fpp :
                  fpp[p] = Cardinality({i \in 1..Len(files) :
                                           files[i].cloud_provider = p})
            /\ SumOver(fpp, DOMAIN fpp) = Parsed.total_files

\* both providers occur, with different counts, and a record is in no group
C10_Witness ==
    /\ pc = "generated"
    /\ DOMAIN Parsed.summary.files_per_provider = ProviderTags
    /\ Parsed.summary.files_per_provider["google_drive"] = 3
    /\ Parsed.summary.files_per_provider["onedrive"] = 1
    /\ Parsed.duplicates # <<>>
    /\ Ungrouped # {}

\* ------------------------------------------------------------------------
\* Properties of scan_directory (SpecScan: one directory, scanned once)
\* ------------------------------------------------------------------------
\* the entries of the scanned directory
Scanned == dirs[1].listing

\* the scan has ended, by a return or by an exception
ScanEnded == pc \in {"start", "crashed"}

\* the records returned for the entry with the given path
RecordsOf(path) == {i \in 1..Len(files) : files[i].path = path}

\* the warnings printed for the entry with the given path
WarningsOf(path) ==
    {i \in 1..Len(diagnostics) : diagnostics[i].path = path}

\* C13: scan_directory on a root that does not exist returns no records,
\* raises nothing and prints no warning; a missing or empty root contributes
\* no records and no duplicate groups.
C13_MissingRootIsEmpty ==
    (ScanEnded /\ (~dirs[1].exists \/ Scanned = <<>>)) =>
        /\ pc = "start"
        /\ raised = "none"
        /\ files = <<>>
        /\ diagnostics = <<>>
        /\ find_duplicates(files) = <<>>

\* the scan of a missing root has returned
C13_Witness ==
    /\ pc = "start"
    /\ ~dirs[1].exists
    /\ scanned = 1
    /\ files = <<>>

\* C15: a scan is never aborted by one failing entry: every file entry that
\* fails to stat or to be read gets a warning and no record, and every
\* readable regular file gets its record.
C15_FailingEntrySkipped ==
    ScanEnded =>
        /\ raised = "none"
        /\ \A k \in 1..Len(Scanned) :
              Scanned[k].kind = "file" =>
                  IF Scanned[k].fault = NoFault
                    THEN Cardinality(RecordsOf(Scanned[k].path)) = 1
                    ELSE /\ RecordsOf(Scanned[k].path) = {}
                         /\ WarningsOf(Scanned[k].path) # {}

\* C16: only regular files get a record: a symbolic link to a regular file
\* gets none under its own path, so no file is returned once directly and
\* once more through a link to it.
C16_NoRecordThroughSymlink ==
    pc = "start" =>
        \A k \in 1..Len(Scanned) :
            Scanned[k].kind = "symlink" => RecordsOf(Scanned[k].path) = {}

\* ------------------------------------------------------------------------
\* Properties of compute_file_hash (SpecHash)
\* ------------------------------------------------------------------------
\* C14: on a read failure compute_file_hash raises nothing, returns the
\* failure marker and prints one warning.
C14_ReadFailureIsMarker ==
    \A k \in 1..Len(results) :
        calls[k].fault # NoFault =>
            /\ results[k].raised = "none"
            /\ results[k].value = FailureMarker
            /\ Len(results[k].diag) = 1

\* the file was removed before the read, and the call has returned
C14_Witness ==
    /\ Len(results) >= 1
    /\ calls[1].fault = [at |-> "open", exc |-> "FileNotFoundError"]
    /\ results[1].value = FailureMarker
    /\ results[1].raised = "none"

\* C17: the digest is a function of the bytes only: two readable files have
\* the same digest exactly when they have the same content, whatever their
\* paths and the chunk sizes of the scanners.
C17_DigestOfContentOnly ==
    \A i, j \in 1..Len(results) :
        (calls[i].fault = NoFault /\ calls[j].fault = NoFault) =>
            ((calls[i].content = calls[j].content)
                <=> (results[i].value = results[j].value))

\* ------------------------------------------------------------------------
\* Properties of main
\* ------------------------------------------------------------------------
\* a manifest without its timestamp
Untimed(m) == [m EXCEPT !.generated_at = ""]

\* C11: a second run of main over the same files saves the manifest that the
\* first run saved, but for generated_at, whatever order the walk yields the
\* entries in.
C11_RerunSameManifest ==
    (run = "second" /\ pc = "saved") =>
        Untimed(manifest_json) = Untimed(first_manifest)

\* the digests in ascending order, as Python compares strings
AscendingDigests == <<"abc123", "def456">>

DigestLess(h1, h2) ==
    \E i, j \in 1..Len(AscendingDigests) :
        i < j /\ AscendingDigests[i] = h1 /\ AscendingDigests[j] = h2

\* C12: the view of the worst offenders is sorted by total_waste descending,
\* and groups of equal total_waste by hash ascending.
C12_WorstOffendersOrder ==
    pc = "shown" =>
        \A i, j \in 1..Len(sorted_dupes) :
            i < j =>
                \/ sorted_dupes[i].total_waste > sorted_dupes[j].total_waste
                \/ /\ sorted_dupes[i].total_waste = sorted_dupes[j].total_waste
                   /\ DigestLess(sorted_dupes[i].hash, sorted_dupes[j].hash)

\* C18: no step of a run deletes, moves, modifies or adds a file in a cloud
\* directory that it scans: the listings of the cloud directories stay as
\* they were.
C18_TreesUnchanged ==
    [][\A d \in 1..Len(dirs) :
          dirs[d].provider # "none" => dirs'[d].listing = dirs[d].listing]_vars

\* ------------------------------------------------------------------------
\* Properties of save_manifest (SpecSave)
\* ------------------------------------------------------------------------
\* the directory can take the file
Usable(d) == dirs[d].exists /\ dirs[d].writable

\* C19: a save to a destination that cannot be written raises, and leaves the
\* manifest in memory and the directories as they were; a later save of the
\* same manifest to a usable destination succeeds and writes it.
C19_SaveFailureSurfaces ==
    [][LET d == last_save'.output_dir
       IN  /\ ~Usable(d) =>
                 /\ raised' \in {"FileNotFoundError", "PermissionError"}
                 /\ pc' = "save_failed"
                 /\ manifest_json' = manifest_json
                 /\ dirs' = dirs
           /\ (pc = "save_failed" /\ Usable(d)) =>
                 /\ raised' = "none"
                 /\ pc' = "saved"
                 /\ manifest_json' = manifest_json
                 /\ ReadText(dirs', saved_path') = <<manifest_json>>]_vars

\* the save after a failed save has written the manifest
C19_Witness ==
    /\ pc = "saved"
    /\ last_save.after_failure
    /\ ReadText(dirs, saved_path) = <<manifest_json>>

\* C20: after a save that succeeded, the path returned is
\* output_dir/filename and the file there holds manifest_json and nothing
\* else, whatever it held before.
C20_SavedFileIsManifest ==
    pc = "saved" =>
        /\ saved_path = <<last_save.output_dir, last_save.filename>>
        /\ ReadText(dirs, saved_path) = <<manifest_json>>

\* a file that held another document has been overwritten
C20_Witness ==
    /\ pc = "saved"
    /\ last_save.filename = "test.json"
    /\ last_save.before # <<>>
    /\ last_save.before # <<manifest_json>>
    /\ ReadText(dirs, saved_path) = <<manifest_json>>

\* ------------------------------------------------------------------------
\* Order and shape of the groups (SpecShow)
\* ------------------------------------------------------------------------
\* position in the input of the first record with digest h
FirstIndex(h) ==
    CHOOSE i \in IndicesOf(h) : \A j \in IndicesOf(h) : i <= j

\* the input records with digest h, in input order
RECURSIVE Filtered(_, _)
Filtered(fs, h) ==
    IF fs = <<>> THEN <<>>
    ELSE IF Head(fs).hash = h THEN <<Head(fs)>> \o Filtered(Tail(fs), h)
    ELSE Filtered(Tail(fs), h)

\* C21: groups are returned in digest-insertion order: one group precedes
\* another exactly when the first record with its digest precedes the first
\* record with the other's digest.
C21_GroupsInInsertionOrder ==
    pc # "start" =>
        \A g1, g2 \in 1..Len(duplicates) :
            (g1 < g2) <=>
                (FirstIndex(duplicates[g1].hash)
                    < FirstIndex(duplicates[g2].hash))

\* two groups, the first of them with the greater digest
C21_Witness ==
    /\ pc = "found"
    /\ Len(duplicates) = 2
    /\ duplicates[1].hash = "def456"
    /\ duplicates[2].hash = "abc123"
    /\ files[1].hash = "def456"

\* C22: the members of a group are the input records with the group's
\* digest, in input order.
C22_MembersInInputOrder ==
    pc # "start" =>
        \A g \in 1..Len(duplicates) :
            duplicates[g].files = Filtered(files, duplicates[g].hash)

\* a group of three members, with a record of another digest between them
C22_Witness ==
    /\ pc = "found"
    /\ Len(files) = 4
    /\ files[2].hash # files[1].hash
    /\ \E g \in 1..Len(duplicates) :
          /\ Len(duplicates[g].files) = 3
          /\ duplicates[g].files[1].path = 1
          /\ duplicates[g].files[2].path = 3
          /\ duplicates[g].files[3].path = 4

\* C26: the groups have pairwise distinct hashes, every input record is a
\* member of at most one group, and every group has at least two members.
C26_GroupsDisjoint ==
    pc # "start" =>
        /\ \A g1, g2 \in 1..Len(duplicates) :
              duplicates[g1].hash = duplicates[g2].hash => g1 = g2
        /\ \A i \in 1..Len(files) :
              Cardinality({g \in 1..Len(duplicates) :
                              files[i] \in MemberSet(duplicates[g])}) <= 1
        /\ \A g \in 1..Len(duplicates) : Len(duplicates[g].files) >= 2

\* a group of three members, and a record outside it
C26_Witness ==
    /\ pc = "found"
    /\ Len(duplicates) = 1
    /\ Len(duplicates[1].files) = 3
    /\ Ungrouped # {}

\* C27: the manifest lists every input record once, in input order, with its
\* five fields as they are; total_duplicates and summary.duplicate_groups are
\* the length of the manifest's duplicates list; generate_manifest changes
\* neither the records nor the groups.
C27_ManifestListsInput ==
    [][pc' = "generated" =>
          LET written == json_loads(manifest_json')
          IN  /\ written.files = files
              /\ written.total_duplicates = Len(written.duplicates)
              /\ written.summary.duplicate_groups = Len(written.duplicates)
              /\ files' = files
              /\ duplicates' = duplicates]_vars

\* a manifest of three records with a group of two of them
C27_Witness ==
    /\ pc = "generated"
    /\ Len(files) = 3
    /\ Len(Parsed.files) = 3
    /\ Len(Parsed.duplicates) = 1
    /\ Parsed.total_duplicates = 1
    /\ Parsed.files[3].last_modified = files[3].last_modified

\* ------------------------------------------------------------------------
\* The stages of main (SpecMain)
\* ------------------------------------------------------------------------
\* the stages in the order of the statements of main
Stages == <<"scan", "start", "found", "shown", "generated", "saved">>

\* position of a stage; a run that an exception ended is behind them all
StageRank(p) ==
    IF \E k \in 1..Len(Stages) : Stages[k] = p
      THEN CHOOSE k \in 1..Len(Stages) : Stages[k] = p
      ELSE Len(Stages) + 1

\* C23: a run of main only moves forward: find_duplicates starts when every
\* cloud directory has been scanned, generate_manifest after find_duplicates
\* has returned, save_manifest after generate_manifest, and no stage is
\* entered again.
C23_StagesForward ==
    [][/\ StageRank(pc') >= StageRank(pc)
       /\ pc' = pc => (pc = "scan" /\ scanned' = scanned + 1)
       /\ pc' = "found" =>
             (pc = "start" /\ scanned = NumCloud
                /\ Len(files) >= Len(dirs[1].listing) + Len(dirs[2].listing))
       /\ pc' = "generated" =>
             (pc = "shown" /\ duplicates = find_duplicates(files))
       /\ pc' = "saved" => (pc = "generated" /\ manifest_json # <<>>)]_vars

\* a run that scanned both directories, found a group and saved the manifest
C23_Witness ==
    /\ pc = "saved"
    /\ scanned = 2
    /\ Len(files) >= 3
    /\ duplicates # <<>>
    /\ dirs[1].listing # <<>>
    /\ dirs[2].listing # <<>>

\* ------------------------------------------------------------------------
\* One reading of each entry (SpecScan)
\* ------------------------------------------------------------------------
\* the warnings of compute_file_hash for the entry with the given path
ReadWarningsOf(path) ==
    {i \in WarningsOf(path) : diagnostics[i].warning = "Could not read"}

\* C24: in one scan every entry is fingerprinted at most once (a call of
\* compute_file_hash ends in a record or in its warning), and an entry whose
\* read fails gets no record and exactly one warning: the read is not tried
\* again.
C24_FingerprintedOnce ==
    ScanEnded =>
        \A k \in 1..Len(Scanned) :
            /\ Cardinality(RecordsOf(Scanned[k].path))
                  + Cardinality(ReadWarningsOf(Scanned[k].path)) <= 1
            /\ (pc = "start"
                  /\ Resolve(Scanned, Scanned[k]).fault.at \in {"open", "read"})
                  => /\ RecordsOf(Scanned[k].path) = {}
                     /\ Cardinality(WarningsOf(Scanned[k].path)) = 1
                     /\ Cardinality(ReadWarningsOf(Scanned[k].path)) = 1

\* a scan that returned a record for one file and one warning for another
\* file, which could not be opened
C24_Witness ==
    /\ pc = "start"
    /\ Len(Scanned) = 2
    /\ Scanned[1].kind = "file"
    /\ Scanned[1].fault = [at |-> "open", exc |-> "PermissionError"]
    /\ Scanned[2].kind = "file"
    /\ Scanned[2].fault = NoFault
    /\ Len(diagnostics) = 1
    /\ diagnostics[1].path = Scanned[1].path
    /\ Len(files) = 1

\* ------------------------------------------------------------------------
\* The records of a scanned tree (SpecTree)
\* ------------------------------------------------------------------------
\* C25: every record that scan_directory(directory, provider) returns has
\* the provider given and a hash that is not empty, and every readable
\* regular file of the tree, at any depth, has one record.
C25_RecordPerReadableFile ==
    pc = "start" =>
        /\ \A i \in 1..Len(files) :
              /\ files[i].cloud_provider = dirs[1].provider
              /\ files[i].hash # FailureMarker
        /\ \A k \in 1..Len(dirs[1].tree) :
              (dirs[1].tree[k].kind = "file"
                 /\ dirs[1].tree[k].fault = NoFault)
                 => Cardinality(RecordsOf(dirs[1].tree[k].path)) = 1

\* a record for a file two subdirectories down
C25_Witness ==
    /\ pc = "start"
    /\ Len(dirs[1].tree) = 3
    /\ dirs[1].tree[3].kind = "file"
    /\ dirs[1].tree[3].parent = 2
    /\ dirs[1].tree[2].parent = 1
    /\ Len(files) = 1
    /\ files[1].path = <<1, EntryName(1), EntryName(2), EntryName(3)>>
    /\ files[1].cloud_provider = "onedrive"

\* ------------------------------------------------------------------------
\* The early returns of main (SpecPrompt)
\* ------------------------------------------------------------------------
\* the answers that are 'yes' or 'y' in any case of the letters
Confirming == {"yes", "y", "YES", "Yes", "Y"}

\* a manifest file is on disk
ManifestOnDisk ==
    \E d \in 1..Len(dirs) : ReadText(dirs, <<d, DefaultFilename>>) # <<>>

\* C28: when no cloud directory is detected, or the answer at the prompt is
\* not 'yes' or 'y' in any case, main ends with nothing scanned, nothing
\* hashed and no manifest written; a manifest is on disk only when the user
\* confirmed.
C28_NothingWithoutConsent ==
    /\ ((NumCloud = 0 /\ pc # "detect")
          \/ (response # <<>> /\ response[1] \notin Confirming))
          => /\ pc = "ended"
             /\ scanned = 0
             /\ files = <<>>
             /\ diagnostics = <<>>
             /\ manifest_json = <<>>
             /\ saved_path = <<>>
             /\ ~ManifestOnDisk
    /\ ManifestOnDisk =>
          (NumCloud > 0 /\ Len(response) = 1 /\ response[1] \in Confirming)

\* the user answered "yes please", and main has ended
C28_Witness ==
    /\ pc = "ended"
    /\ NumCloud = 2
    /\ response = <<"yes please">>
    /\ dirs[1].listing # <<>>
    /\ files = <<>>

\* ------------------------------------------------------------------------
\* Size and hash of a record (SpecSync)
\* ------------------------------------------------------------------------
\* C29: the size of a record is the length of the content that its hash is
\* the digest of, also when a file is rewritten between stat() and the read;
\* two records with the same hash have the same size.
C29_SizeOfHashedContent ==
    /\ \A i \in 1..Len(files) :
          \A c \in ContentsUpTo(MaxContent) :
              hexdigest(c) = files[i].hash => files[i].size = Len(c)
    /\ \A i, j \in 1..Len(files) :
          files[i].hash = files[j].hash => files[i].size = files[j].size

\* ------------------------------------------------------------------------
\* The order of the uploads and the local writes (SpecRoute)
\* ------------------------------------------------------------------------
\* what the remote did with the upload made to it, if one was made
OutcomesOf(remote) ==
    {uploads[k].outcome : k \in {j \in 1..Len(uploads) :
                                    uploads[j].remote = remote}}

\* the location appended for a remote
LocationOf(remote) ==
    CASE remote = "onedrive" -> "OneDrive/Masters"
      [] remote = "b2" -> "Backblaze/evidence-masters"
      [] remote = "gdrive" -> "GDrive/Evidence/Working"

Logged(remote) ==
    \E k \in 1..Len(locations) : locations[k] = LocationOf(remote)

\* with local_only false, nothing is written locally before the OneDrive
\* upload is verified, and a OneDrive upload that fails or differs raises
OneDriveFirst ==
    ~args.local_only =>
        /\ custody # <<>> => OutcomesOf("onedrive") = {"ok"}
        /\ (OutcomesOf("onedrive") # {} /\ OutcomesOf("onedrive") # {"ok"})
              => (pc = "crashed" /\ raised # "none" /\ custody = <<>>)

\* a run that got through wrote the working copy, the row and the manifest,
\* the last two with the locations collected
AllWritten ==
    pc = "routed" =>
        /\ Len(custody) = 3
        /\ custody[1].kind = "working_copy"
        /\ custody[2].kind = "ACQUIRED"
        /\ custody[3].kind = "manifest"
        /\ custody[2].locations = locations
        /\ custody[3].locations = locations

\* C30 as stated: the local working copy, the ACQUIRED row and the manifest
\* are written only after a verified OneDrive upload; a Backblaze or Google
\* Drive upload that fails or whose copy differs does not stop the run and
\* its location is left out of the list.
C30_SecondaryLeftOut ==
    /\ OneDriveFirst
    /\ AllWritten
    /\ \A remote \in {"b2", "gdrive"} :
          (OutcomesOf(remote) # {} /\ OutcomesOf(remote) # {"ok"})
             => (pc # "crashed" /\ ~Logged(remote))

\* C30: the local working copy, the ACQUIRED row and the manifest are written
\* only after a verified OneDrive upload; a Backblaze upload that fails or
\* whose copy differs, and a Google Drive upload that fails, do not stop the
\* run and leave the location out; the Google Drive copy is not verified, and
\* its location is logged whenever the copy command succeeded.
C30_OnlyVerifiedMasters ==
    /\ OneDriveFirst
    /\ AllWritten
    /\ (OutcomesOf("b2") # {} /\ OutcomesOf("b2") # {"ok"})
          => (pc # "crashed" /\ ~Logged("b2"))
    /\ OutcomesOf("gdrive") = {"copy_failed"}
          => (pc # "crashed" /\ ~Logged("gdrive"))
    /\ (OutcomesOf("gdrive") # {} /\ OutcomesOf("gdrive") # {"copy_failed"})
          => Logged("gdrive")
    /\ OutcomesOf("b2") = {"ok"} => Logged("b2")

\* OneDrive verified, the Backblaze and the Google Drive copies differ from
\* the source, and the run got through
C30_Witness ==
    /\ pc = "routed"
    /\ uploads = <<[remote |-> "onedrive", outcome |-> "ok"],
                   [remote |-> "b2", outcome |-> "mismatch"],
                   [remote |-> "gdrive", outcome |-> "mismatch"]>>
    /\ locations = <<"OneDrive/Masters", "GDrive/Evidence/Working",
                     "Local/Working-Copies">>
    /\ Len(custody) = 3

====
